---- MODULE Spec2Model ----
(***************************************************************************)
(* Model of ufo-gleaner's lazy glyph object model (core/font.rs), its     *)
(* index loader (core/plist.rs), its file providers (core/provider.rs,    *)
(* test_utils.rs) and its eager batch reader (core/gleaner.rs).           *)
(*                                                                         *)
(* One package, one Font and one UfoGleaner over it.  Every public        *)
(* operation is one action; what the operation returned is kept in `ret`. *)
(***************************************************************************)
EXTENDS Integers, Sequences, FiniteSets, TLC

(* ---------------------------------------------------------------------- *)
(* Bounds                                                                  *)
(* ---------------------------------------------------------------------- *)

\* Number of Iter objects built over the Font.
MaxIters == 2

\* Number of glean() calls of which a record is kept.
MaxGleans == 2

\* Number of Glyphs built with the public constructor Glyph::new.
MaxNewGlyphs == 1

(* ---------------------------------------------------------------------- *)
(* The package                                                             *)
(* ---------------------------------------------------------------------- *)

Names == {"A", "B"}

\* UfoRelativePath::Contents.to_pathbuf()
ContentsPath == "contents.plist"

GlifFiles == {"A.glif", "B.glif"}

Paths == {ContentsPath} \cup GlifFiles

\* The filename the index of a well-formed package gives a name.
FileNameOf(n) == IF n = "A" THEN "A.glif" ELSE "B.glif"

\* State of a path that does not exist.
Absent == [t |-> "absent"]

\* State of a path that exists and cannot be read (a directory, no permission).
Unreadable == [t |-> "unreadable"]

\* Bytes that neither decoder accepts.
Garbage == [t |-> "garbage"]

\* plist::Value, as far as the index loader looks at it.
StringValue(s) == [t |-> "String", s |-> s]

IntegerValue == [t |-> "Integer", s |-> "123"]

DictionaryValue(d) == [t |-> "Dictionary", dict |-> d]

\* The values an index entry may have: a filename, or a non-string value.
EntryValues(n) == {StringValue(FileNameOf(n)), IntegerValue}

\* All dictionaries over subsets of Names.
Dictionaries ==
  UNION {[S -> UNION {EntryValues(n) : n \in S}] : S \in SUBSET Names}

WellTypedDictionaries ==
  {d \in Dictionaries : \A n \in DOMAIN d : d[n] \in EntryValues(n)}

\* Bytes of a property list file holding value v.
PlistBytes(v) == [t |-> "plist", value |-> v]

\* Bytes of a glyph file holding record r.
GlifBytes(r) == [t |-> "glif", record |-> r]

Records == {"r1", "r2"}

IndexFileStates ==
  {Absent, Unreadable, Garbage, PlistBytes(StringValue("not a dict"))}
    \cup {PlistBytes(DictionaryValue(d)) : d \in WellTypedDictionaries}

GlifFileStates == {Absent, Garbage} \cup {GlifBytes(r) : r \in Records}

ProviderKinds == {"FileProvider", "MockProvider"}

(* ---------------------------------------------------------------------- *)
(* Results and errors                                                      *)
(* ---------------------------------------------------------------------- *)

None == [t |-> "None"]

Some(v) == [t |-> "Some", v |-> v]

NoError == [kind |-> "none", attr |-> "", path |-> <<>>]

Error_new(kind) == [kind |-> kind, attr |-> "", path |-> <<>>]

MissingAttribute(name) == [kind |-> "MissingAttribute", attr |-> name, path |-> <<>>]

with_path(e, p) == [e EXCEPT !.path = p]

\* Result<T>: Ok(v) or Err(e).  `reads` lists the paths read through the
\* provider on the way to the result, `parses` counts the Record Parser's runs.
Ok(v) == [ok |-> TRUE, val |-> v, err |-> NoError, reads |-> {}, parses |-> 0]

Err(e) == [ok |-> FALSE, val |-> None, err |-> e, reads |-> {}, parses |-> 0]

\* The result res of a step that follows the step that gave first.
After(first, res) ==
  [res EXCEPT !.reads = first.reads \cup @, !.parses = first.parses + @]

\* A result that came out of one provider read of path.
Reading(path, res) == [res EXCEPT !.reads = {path}]

\* A result that came out of one run of the Record Parser.
Parsing(res) == [res EXCEPT !.parses = @ + 1]

\* impl From<std::io::Error> for Error: a missing file is told apart from
\* every other read failure.
FromIoError(ioKind) ==
  IF ioKind = "NotFound" THEN Error_new("FileNotFound") ELSE Error_new("Io")

\* impl From<plist::Error> for Error
FromPlistError == Error_new("Plist")

\* impl From<quick_xml::Error> for Error
FromXmlError == Error_new("Xml")

(* ---------------------------------------------------------------------- *)
(* File Access Capability                                                  *)
(* ---------------------------------------------------------------------- *)

\* FileProvider::root / MockProvider::root
root(kind) == IF kind = "FileProvider" THEN "/ufo" ELSE ""

\* A plausible slip: every failure of open is reported as plain I/O.
FileProvider_read_io(fs, path) ==
  Reading(path,
    IF fs[path] = Absent \/ fs[path] = Unreadable THEN Err(Error_new("Io"))
    ELSE Ok(fs[path]))

\* FileProvider::read: fs::File::open(..)? then read_to_end(..)?
FileProvider_read(fs, path) ==
  Reading(path,
    IF fs[path] = Absent THEN Err(FromIoError("NotFound"))
    ELSE IF fs[path] = Unreadable THEN Err(FromIoError("Other"))
    ELSE Ok(fs[path]))

\* MockProvider::read: files.get(path).cloned().ok_or_else(Error::new(Io))
MockProvider_read(fs, path) ==
  Reading(path,
    IF fs[path] = Absent THEN Err(Error_new("Io")) ELSE Ok(fs[path]))

\* Provider::read, dispatched on the variant.
read(kind, fs, path) ==
  IF kind = "FileProvider" THEN FileProvider_read(fs, path)
  ELSE MockProvider_read(fs, path)

(* ---------------------------------------------------------------------- *)
(* Index Loader (core/plist.rs)                                            *)
(* ---------------------------------------------------------------------- *)

\* plist::Value::from_reader: the decoder of the plist crate.
Value_from_reader(bytes) ==
  IF bytes.t = "plist" THEN Ok(bytes.value) ELSE Err(FromPlistError)

\* PlistParser::open_plist
open_plist(kind, fs, path) == read(kind, fs, path)

\* PlistParser::parse_plist
parse_plist(kind, fs, path) ==
  LET reader == open_plist(kind, fs, path) IN
    IF ~reader.ok THEN reader
    ELSE After(reader, Value_from_reader(reader.val))

\* A plausible slip: every entry is kept, whatever its type.
StringEntries_keepAll(dict) == [k \in DOMAIN dict |-> dict[k].s]

\* The filter_map of parse_contents: the string-valued entries of dict.
StringEntries(dict) ==
  LET keep == {k \in DOMAIN dict : dict[k].t = "String"} IN
    [k \in keep |-> dict[k].s]

\* A plausible slip: a top-level value that is no dictionary counts as an
\* empty index.
parse_contents_lenient(kind, fs) ==
  LET plist_value == parse_plist(kind, fs, ContentsPath) IN
    IF ~plist_value.ok THEN plist_value
    ELSE IF plist_value.val.t = "Dictionary"
      THEN After(plist_value, Ok(StringEntries(plist_value.val.dict)))
      ELSE After(plist_value, Ok([n \in {} |-> ""]))

\* parse_contents
parse_contents(kind, fs) ==
  LET plist_value == parse_plist(kind, fs, ContentsPath) IN
    IF ~plist_value.ok THEN plist_value
    ELSE IF plist_value.val.t = "Dictionary"
      THEN After(plist_value, Ok(StringEntries(plist_value.val.dict)))
      ELSE After(plist_value,
                 Err(with_path(Error_new("Plist"), <<ContentsPath>>)))

(* ---------------------------------------------------------------------- *)
(* Record Parser (glif.rs)                                                 *)
(* ---------------------------------------------------------------------- *)

\* GlifParser::parse_glif: reads file_name through the provider and parses
\* the bytes into a GlifData.
parse_glif(kind, fs, file_name) ==
  LET data == read(kind, fs, file_name) IN
    Parsing(IF ~data.ok THEN data
            ELSE IF data.val.t = "glif"
              THEN After(data, Ok([format |-> data.val.record]))
              ELSE After(data, Err(FromXmlError)))

\* GlifParser::new: keeps the provider, cannot fail.
GlifParser_new(kind) == Ok(kind)

(* ---------------------------------------------------------------------- *)
(* State                                                                   *)
(* ---------------------------------------------------------------------- *)

VARIABLES
  provider,      \* the variant of the File Access Capability in use
  files,         \* the package: what each path holds
  fontState,     \* "none", "open" (Font::new returned Ok) or "failed"
  contents,      \* Font.contents: name -> file name
  glyphs,        \* Font.glyphs: name -> Glyph (an index into objs)
  objs,          \* every Glyph built so far: [name, cache]
  loads,         \* per Glyph: successful loads so far; did the last load fail
  gleanerState,  \* "none", "open" (UfoGleaner::new returned Ok) or "failed"
  gcontents,     \* UfoGleaner.contents
  iters,         \* every Iter built so far: the keys left, the names yielded
  gleanLog,      \* record of the glean() calls made, when one is kept
  heap,          \* references held by the caller and objects freed, when kept
  borrowed,      \* the borrow flag of every RefCell that is borrowed
  ret            \* the last operation and what it returned

vars == <<provider, files, fontState, contents, glyphs, objs, loads,
          gleanerState, gcontents, iters, gleanLog, heap, borrowed, ret>>

EmptyMap == [n \in {} |-> None]

\* The returned value of an operation op on name/handle, with result res.
\* retry: the call is a field access that follows a failed load of the Glyph.
Returned(op, name, h, res) ==
  [op |-> op, name |-> name, h |-> h, ok |-> res.ok, val |-> res.val,
   err |-> res.err, reads |-> res.reads, parses |-> res.parses,
   retry |-> FALSE, it |-> 0]

\* A plausible slip: the wrapper is built with a record already in its cell.
Glyph_new_loaded(name) == [name |-> name, cache |-> Some([format |-> "r1"])]

\* Glyph::new: a glyph wrapper with an empty cache.
Glyph_new(name) == [name |-> name, cache |-> None]

NoLoads == [okLoads |-> 0, failed |-> FALSE]

\* No RefCell is borrowed and no borrow has panicked.
NoBorrows == [flag |-> [c \in {} |-> 0], panicked |-> FALSE]

\* The package, the provider and the objects before any construction.
InitPackage ==
  /\ provider \in ProviderKinds
  /\ files \in [Paths -> {Absent, Unreadable, Garbage} \cup IndexFileStates
                           \cup GlifFileStates]
  /\ files[ContentsPath] \in IndexFileStates
  /\ \A f \in GlifFiles : files[f] \in GlifFileStates
  /\ provider = "MockProvider" => \A p \in Paths : files[p] # Unreadable
  /\ fontState = "none"
  /\ contents = EmptyMap
  /\ glyphs = EmptyMap
  /\ objs = <<>>
  /\ loads = <<>>
  /\ gleanerState = "none"
  /\ gcontents = EmptyMap
  /\ ret = Returned("init", "", 0, Ok(None))
  /\ iters = <<>>
  /\ borrowed = NoBorrows

\* No record of glean() calls is kept.
LogOff == [on |-> FALSE]

\* The record of glean() calls before the first call.
LogEmpty == [on |-> TRUE, calls |-> 0, parses |-> 0,
             last |-> EmptyMap, prev |-> EmptyMap]

\* No record of references and freed objects is kept.
HeapOff == [on |-> FALSE]

\* The references and freed objects before any construction: the caller
\* holds nothing and nothing was freed.
HeapEmpty == [on |-> TRUE, font |-> FALSE, glyphs |-> {}, iters |-> {},
              fontFreed |-> FALSE, glyphsFreed |-> {}]

Init == InitPackage /\ gleanLog = LogOff /\ heap = HeapOff

(* ---------------------------------------------------------------------- *)
(* RefCell borrows and Rc references (std::cell, std::rc as used in        *)
(* core/font.rs)                                                           *)
(* ---------------------------------------------------------------------- *)

\* The RefCell Font.glyphs, and the RefCell Glyph.cache of the Glyph h.
FontGlyphs == <<"Font.glyphs", 0>>
GlyphCache(h) == <<"Glyph.cache", h>>

\* The calls on a RefCell, in the order the code makes them.
borrow(c) == [cell |-> c, ev |-> "borrow"]
borrow_mut(c) == [cell |-> c, ev |-> "borrow_mut"]
drop_ref(c) == [cell |-> c, ev |-> "drop_ref"]
drop_mut(c) == [cell |-> c, ev |-> "drop_mut"]

\* The borrow flag of the cell c: 0 unused, n > 0 readers, -1 one writer.
Flag(b, c) == IF c \in DOMAIN b.flag THEN b.flag[c] ELSE 0

SetFlag(b, c, n) ==
  LET old == b.flag
      dom == (DOMAIN old \ {c}) \cup (IF n = 0 THEN {} ELSE {c})
  IN [b EXCEPT !.flag = [d \in dom |-> IF d = c THEN n ELSE old[d]]]

\* One call on a RefCell: borrow() panics while the cell is mutably
\* borrowed, borrow_mut() panics while it is borrowed at all.
RefCell_call(b, e) ==
  IF b.panicked THEN b
  ELSE CASE e.ev = "borrow" ->
              IF Flag(b, e.cell) < 0 THEN [b EXCEPT !.panicked = TRUE]
              ELSE SetFlag(b, e.cell, Flag(b, e.cell) + 1)
         [] e.ev = "borrow_mut" ->
              IF Flag(b, e.cell) # 0 THEN [b EXCEPT !.panicked = TRUE]
              ELSE SetFlag(b, e.cell, -1)
         [] e.ev = "drop_ref" -> SetFlag(b, e.cell, Flag(b, e.cell) - 1)
         [] e.ev = "drop_mut" -> SetFlag(b, e.cell, 0)

\* The borrow flags after the calls of trace, made in order.
RECURSIVE Replay(_, _)
Replay(b, trace) ==
  IF trace = <<>> THEN b
  ELSE Replay(RefCell_call(b, Head(trace)), Tail(trace))

\* Font::glyph: let mut cache = self.glyphs.borrow_mut(), dropped at the end
\* of the function.
glyph_borrows == <<borrow_mut(FontGlyphs), drop_mut(FontGlyphs)>>

\* Font::glyphs: let mut glyph_map = self.glyphs.borrow_mut(), dropped at the
\* end of the function.
glyphs_all_borrows == <<borrow_mut(FontGlyphs), drop_mut(FontGlyphs)>>

\* Iter::next: the closure of map() runs for a key only; its borrow_mut() is
\* dropped at the end of the closure.
next_borrows(it) ==
  IF it.keys = <<>> THEN <<>>
  ELSE <<borrow_mut(FontGlyphs), drop_mut(FontGlyphs)>>

\* A plausible slip: the Ref taken for the check of the cell is bound to a
\* variable and lives to the end of load.
load_borrows_held(h, g, parsed_ok) ==
  IF g.cache = None /\ parsed_ok
    THEN <<borrow(GlyphCache(h)), borrow_mut(GlyphCache(h)),
           drop_mut(GlyphCache(h)), drop_ref(GlyphCache(h))>>
    ELSE <<borrow(GlyphCache(h)), drop_ref(GlyphCache(h))>>

\* Glyph::load: the temporary self.cache.borrow() of the if let is dropped
\* at the end of that statement; *self.cache.borrow_mut() = .. is reached
\* after a successful parse only and is dropped at the end of its statement.
load_borrows(h, g, parsed_ok) ==
  IF g.cache = None /\ parsed_ok
    THEN <<borrow(GlyphCache(h)), drop_ref(GlyphCache(h)),
           borrow_mut(GlyphCache(h)), drop_mut(GlyphCache(h))>>
    ELSE <<borrow(GlyphCache(h)), drop_ref(GlyphCache(h))>>

\* The references the caller holds after an operation returned r.
Held(hp, r) ==
  IF ~hp.on THEN hp
  ELSE CASE r.op = "Font::new" /\ r.ok -> [hp EXCEPT !.font = TRUE]
         [] r.op \in {"glyph", "Glyph::new"} ->
              [hp EXCEPT !.glyphs = @ \cup {r.h}]
         [] r.op = "next" /\ r.h # 0 -> [hp EXCEPT !.glyphs = @ \cup {r.h}]
         [] r.op = "glyphs" ->
              [hp EXCEPT !.glyphs = @ \cup {r.val[n] : n \in DOMAIN r.val}]
         [] r.op = "iter" -> [hp EXCEPT !.iters = @ \cup {r.it}]
         [] OTHER -> hp

\* The strong count of the Font: the caller's Rc<Font>, the field font:
\* Rc<Font> of every Glyph that is not freed, and that of every Iter.
Font_strong(hp, os) ==
  (IF hp.font THEN 1 ELSE 0) + Cardinality(DOMAIN os \ hp.glyphsFreed)
    + Cardinality(hp.iters)

\* The strong count of the Glyph h: the caller's Rc<Glyph> and the entry of
\* Font.glyphs, while the Font is not freed.
Glyph_strong(hp, cache, h) ==
  (IF h \in hp.glyphs THEN 1 ELSE 0)
    + (IF ~hp.fontFreed /\ \E n \in DOMAIN cache : cache[n] = h
         THEN 1 ELSE 0)

\* Drop for Rc: what has a strong count of zero is freed, which drops the
\* references it held, until nothing more is freed.
RECURSIVE Reclaim(_, _, _)
Reclaim(hp, os, cache) ==
  LET gone == {h \in DOMAIN os : Glyph_strong(hp, cache, h) = 0}
      freed == [hp EXCEPT !.glyphsFreed = @ \cup gone]
      after == [freed EXCEPT !.fontFreed = @ \/ Font_strong(freed, os) = 0]
  IN IF after = hp THEN hp ELSE Reclaim(after, os, cache)

(* ---------------------------------------------------------------------- *)
(* Font and Glyph (core/font.rs)                                           *)
(* ---------------------------------------------------------------------- *)

\* The orders in which a HashMap may hand out the keys S.
KeyOrders(S) ==
  {ks \in [1..Cardinality(S) -> S] : \A n \in S : \E i \in DOMAIN ks : ks[i] = n}

\* The position of n in the sequence ks.
IndexOf(ks, n) == CHOOSE i \in DOMAIN ks : ks[i] = n

\* Font::glyph: cache.entry(name).or_insert_with(|| Glyph::new(..)).clone(),
\* wrapped in Some.  cache is Font.glyphs, os the Glyphs built so far.
glyph(cache, os, name) ==
  IF name \in DOMAIN cache
    THEN [glyphs |-> cache, objs |-> os, val |-> Some(cache[name])]
    ELSE [glyphs |-> [n \in DOMAIN cache \cup {name} |->
                        IF n = name THEN Len(os) + 1 ELSE cache[n]],
          objs |-> Append(os, Glyph_new(name)),
          val |-> Some(Len(os) + 1)]

\* A plausible slip: the map is rebuilt on every call, not only when empty.
glyphs_all_rebuild(cache, os, font_contents, ks) ==
  LET glyph_map == [n \in DOMAIN font_contents \cup DOMAIN cache |->
                      IF n \in DOMAIN font_contents
                        THEN Len(os) + IndexOf(ks, n) ELSE cache[n]]
  IN [glyphs |-> glyph_map,
      objs |-> os \o [i \in DOMAIN ks |-> Glyph_new(ks[i])],
      val |-> glyph_map]

\* Font::glyphs: when the cache is empty, a Glyph is built and inserted for
\* each key of contents (visited in the order ks); the cache is returned.
glyphs_all(cache, os, font_contents, ks) ==
  IF DOMAIN cache = {}
    THEN LET glyph_map == [n \in DOMAIN font_contents |->
                             Len(os) + IndexOf(ks, n)]
         IN [glyphs |-> glyph_map,
             objs |-> os \o [i \in DOMAIN ks |-> Glyph_new(ks[i])],
             val |-> glyph_map]
    ELSE [glyphs |-> cache, objs |-> os, val |-> cache]

\* A plausible slip: the populated cell is not consulted, every access parses.
load_noCacheCheck(g, kind, fs, font_contents) ==
  IF g.name \notin DOMAIN font_contents
    THEN [res |-> Err(with_path(MissingAttribute(g.name),
                                <<root(kind), ContentsPath>>)),
          cache |-> g.cache]
  ELSE LET parsed == parse_glif(kind, fs, font_contents[g.name])
       IN IF parsed.ok
            THEN [res |-> parsed, cache |-> Some(parsed.val)]
            ELSE [res |-> parsed, cache |-> g.cache]

\* A plausible slip: a failed parse is tried a second time within the call.
load_retrying(g, kind, fs, font_contents) ==
  IF g.cache # None
    THEN [res |-> Ok(g.cache.v), cache |-> g.cache]
  ELSE IF g.name \notin DOMAIN font_contents
    THEN [res |-> Err(with_path(MissingAttribute(g.name),
                                <<root(kind), ContentsPath>>)),
          cache |-> g.cache]
  ELSE LET first == parse_glif(kind, fs, font_contents[g.name])
           parsed == IF first.ok THEN first
                     ELSE After(first,
                                parse_glif(kind, fs, font_contents[g.name]))
       IN IF parsed.ok
            THEN [res |-> parsed, cache |-> Some(parsed.val)]
            ELSE [res |-> parsed, cache |-> g.cache]

\* A plausible slip: a name without an index entry is reported as a missing
\* file.
load_notFound(g, kind, fs, font_contents) ==
  IF g.cache # None
    THEN [res |-> Ok(g.cache.v), cache |-> g.cache]
  ELSE IF g.name \notin DOMAIN font_contents
    THEN [res |-> Err(with_path(Error_new("FileNotFound"),
                                <<root(kind), ContentsPath>>)),
          cache |-> g.cache]
  ELSE LET parsed == parse_glif(kind, fs, font_contents[g.name])
       IN IF parsed.ok
            THEN [res |-> parsed, cache |-> Some(parsed.val)]
            ELSE [res |-> parsed, cache |-> g.cache]

\* A plausible slip: the error for a name without an index entry carries no
\* path.
load_bareError(g, kind, fs, font_contents) ==
  IF g.cache # None
    THEN [res |-> Ok(g.cache.v), cache |-> g.cache]
  ELSE IF g.name \notin DOMAIN font_contents
    THEN [res |-> Err(MissingAttribute(g.name)), cache |-> g.cache]
  ELSE LET parsed == parse_glif(kind, fs, font_contents[g.name])
       IN IF parsed.ok
            THEN [res |-> parsed, cache |-> Some(parsed.val)]
            ELSE [res |-> parsed, cache |-> g.cache]

\* A plausible slip: a populated cell is refreshed from the file when the
\* file still parses.
load_refreshing(g, kind, fs, font_contents) ==
  IF g.name \notin DOMAIN font_contents
    THEN IF g.cache # None
           THEN [res |-> Ok(g.cache.v), cache |-> g.cache]
           ELSE [res |-> Err(with_path(MissingAttribute(g.name),
                                       <<root(kind), ContentsPath>>)),
                 cache |-> g.cache]
  ELSE LET parsed == parse_glif(kind, fs, font_contents[g.name])
       IN IF parsed.ok
            THEN [res |-> parsed, cache |-> Some(parsed.val)]
            ELSE IF g.cache # None
              THEN [res |-> Ok(g.cache.v), cache |-> g.cache]
              ELSE [res |-> parsed, cache |-> g.cache]

\* Glyph::load on the Glyph g: the result of the call and the cache cell
\* the call leaves behind.
load(g, kind, fs, font_contents) ==
  IF g.cache # None
    THEN [res |-> Ok(g.cache.v), cache |-> g.cache]
  ELSE IF g.name \notin DOMAIN font_contents
    THEN [res |-> Err(with_path(MissingAttribute(g.name),
                                <<root(kind), ContentsPath>>)),
          cache |-> g.cache]
  ELSE LET parser == GlifParser_new(kind)
           parsed == After(parser,
                           parse_glif(kind, fs, font_contents[g.name]))
       IN IF parsed.ok
            THEN [res |-> parsed, cache |-> Some(parsed.val)]
            ELSE [res |-> parsed, cache |-> g.cache]

\* The bookkeeping of loads after the Glyphs became os.
Extended(ls, os) ==
  [i \in DOMAIN os |-> IF i \in DOMAIN ls THEN ls[i] ELSE NoLoads]

\* Font::new
Font_new ==
  /\ fontState = "none"
  /\ LET parsed == parse_contents(provider, files) IN
       /\ fontState' = IF parsed.ok THEN "open" ELSE "failed"
       /\ contents' = IF parsed.ok THEN parsed.val ELSE contents
       /\ ret' = Returned("Font::new", "", 0, parsed)
  /\ UNCHANGED <<provider, files, glyphs, objs, loads, gleanerState, gcontents>>
  /\ UNCHANGED <<iters, gleanLog>>
  /\ heap' = Held(heap, ret')
  /\ UNCHANGED borrowed

\* A plausible slip: a name the index does not have is entered into it.
Font_glyph_indexing(name) ==
  /\ fontState = "open"
  /\ heap.on => heap.font
  /\ LET out == glyph(glyphs, objs, name) IN
       /\ glyphs' = out.glyphs
       /\ objs' = out.objs
       /\ loads' = Extended(loads, out.objs)
       /\ ret' = Returned("glyph", name, out.val.v, Ok(out.val))
  /\ contents' = [n \in DOMAIN contents \cup {name} |->
                    IF n \in DOMAIN contents THEN contents[n]
                    ELSE FileNameOf(n)]
  /\ UNCHANGED <<provider, files, fontState, gleanerState, gcontents>>
  /\ UNCHANGED <<iters, gleanLog>>
  /\ heap' = Held(heap, ret')
  /\ borrowed' = Replay(borrowed, glyph_borrows)

\* Font::glyph(name)
Font_glyph(name) ==
  /\ fontState = "open"
  /\ heap.on => heap.font
  /\ LET out == glyph(glyphs, objs, name) IN
       /\ glyphs' = out.glyphs
       /\ objs' = out.objs
       /\ loads' = Extended(loads, out.objs)
       /\ ret' = Returned("glyph", name, out.val.v, Ok(out.val))
  /\ UNCHANGED <<provider, files, fontState, contents, gleanerState, gcontents>>
  /\ UNCHANGED <<iters, gleanLog>>
  /\ heap' = Held(heap, ret')
  /\ borrowed' = Replay(borrowed, glyph_borrows)

\* Font::glyphs()
Font_glyphs ==
  /\ fontState = "open"
  /\ heap.on => heap.font
  /\ \E ks \in KeyOrders(DOMAIN contents) :
       LET out == glyphs_all(glyphs, objs, contents, ks) IN
         /\ glyphs' = out.glyphs
         /\ objs' = out.objs
         /\ loads' = Extended(loads, out.objs)
         /\ ret' = Returned("glyphs", "", 0, Ok(out.val))
  /\ UNCHANGED <<provider, files, fontState, contents, gleanerState, gcontents>>
  /\ UNCHANGED <<iters, gleanLog>>
  /\ heap' = Held(heap, ret')
  /\ borrowed' = Replay(borrowed, glyphs_all_borrows)

\* A plausible slip: a failed load empties the cell of every other Glyph.
Glyph_access_poisoning(h) ==
  /\ h \in DOMAIN objs
  /\ LET out == load(objs[h], provider, files, contents) IN
       /\ objs' = [k \in DOMAIN objs |->
                    IF k = h THEN [objs[k] EXCEPT !.cache = out.cache]
                    ELSE IF out.res.ok THEN objs[k]
                    ELSE [objs[k] EXCEPT !.cache = None]]
       /\ loads' = [loads EXCEPT ![h] =
            [okLoads |-> IF out.res.ok /\ out.res.parses > 0 /\ @.okLoads < 2
                           THEN @.okLoads + 1 ELSE @.okLoads,
             failed |-> ~out.res.ok]]
       /\ ret' = [Returned("access", objs[h].name, h, out.res)
                   EXCEPT !.retry = loads[h].failed]
  /\ UNCHANGED <<provider, files, fontState, contents, glyphs, gleanerState,
                 gcontents>>
  /\ UNCHANGED <<iters, gleanLog>>
  /\ UNCHANGED heap
  /\ borrowed' = Replay(borrowed,
       load_borrows(h, objs[h],
                    load(objs[h], provider, files, contents).res.ok))

\* A field accessor of the Glyph h (format, format_minor, advance, unicodes,
\* note, image, guidelines, anchors, outline, lib): Ok(self.load()?.field).
Glyph_access(h) ==
  /\ h \in DOMAIN objs
  /\ LET out == load(objs[h], provider, files, contents) IN
       /\ objs' = [objs EXCEPT ![h].cache = out.cache]
       /\ loads' = [loads EXCEPT ![h] =
            [okLoads |-> IF out.res.ok /\ out.res.parses > 0 /\ @.okLoads < 2
                           THEN @.okLoads + 1 ELSE @.okLoads,
             failed |-> ~out.res.ok]]
       /\ ret' = [Returned("access", objs[h].name, h, out.res)
                   EXCEPT !.retry = loads[h].failed]
  /\ UNCHANGED <<provider, files, fontState, contents, glyphs, gleanerState,
                 gcontents>>
  /\ UNCHANGED <<iters, gleanLog>>
  /\ UNCHANGED heap
  /\ borrowed' = Replay(borrowed,
       load_borrows(h, objs[h],
                    load(objs[h], provider, files, contents).res.ok))

(* ---------------------------------------------------------------------- *)
(* Iter (core/font.rs)                                                     *)
(* ---------------------------------------------------------------------- *)

\* Iter::new: the keys of contents, collected in the order ks.
Iter_new(ks) == [keys |-> ks, yielded |-> <<>>, ended |-> FALSE]

\* A plausible slip: every step builds a Glyph and puts it in the cache.
next_fresh(it, cache, os) ==
  IF it.keys = <<>>
    THEN [it |-> [it EXCEPT !.ended = TRUE], glyphs |-> cache, objs |-> os,
          name |-> "", val |-> None]
    ELSE LET name == Head(it.keys) IN
      [it |-> [it EXCEPT !.keys = Tail(@), !.yielded = Append(@, name)],
       glyphs |-> [n \in DOMAIN cache \cup {name} |->
                     IF n = name THEN Len(os) + 1 ELSE cache[n]],
       objs |-> Append(os, Glyph_new(name)),
       name |-> name, val |-> Some(Len(os) + 1)]

\* A plausible slip: a step hands out a key and leaves it in the list.
next_stuck(it, cache, os) ==
  IF it.keys = <<>>
    THEN [it |-> [it EXCEPT !.ended = TRUE], glyphs |-> cache, objs |-> os,
          name |-> "", val |-> None]
    ELSE LET name == Head(it.keys)
             known == name \in DOMAIN cache
         IN [it |-> [it EXCEPT !.yielded = Append(@, name)],
             glyphs |-> IF known THEN cache
                        ELSE [n \in DOMAIN cache \cup {name} |->
                                IF n = name THEN Len(os) + 1 ELSE cache[n]],
             objs |-> IF known THEN os ELSE Append(os, Glyph_new(name)),
             name |-> name,
             val |-> Some(IF known THEN cache[name] ELSE Len(os) + 1)]

\* Iter::next: self.keys.next().map(|name| cache.entry(name)
\* .or_insert_with(|| Glyph::new(..)).clone()).
next(it, cache, os) ==
  IF it.keys = <<>>
    THEN [it |-> [it EXCEPT !.ended = TRUE], glyphs |-> cache, objs |-> os,
          name |-> "", val |-> None]
    ELSE LET name == Head(it.keys)
             known == name \in DOMAIN cache
         IN [it |-> [it EXCEPT !.keys = Tail(@), !.yielded = Append(@, name)],
             glyphs |-> IF known THEN cache
                        ELSE [n \in DOMAIN cache \cup {name} |->
                                IF n = name THEN Len(os) + 1 ELSE cache[n]],
             objs |-> IF known THEN os ELSE Append(os, Glyph_new(name)),
             name |-> name,
             val |-> Some(IF known THEN cache[name] ELSE Len(os) + 1)]

\* Font::iter()
Font_iter ==
  /\ fontState = "open"
  /\ heap.on => heap.font
  /\ Len(iters) < MaxIters
  /\ \E ks \in KeyOrders(DOMAIN contents) :
       iters' = Append(iters, Iter_new(ks))
  /\ ret' = [Returned("iter", "", 0, Ok(None)) EXCEPT !.it = Len(iters) + 1]
  /\ UNCHANGED <<provider, files, fontState, contents, glyphs, objs, loads,
                 gleanerState, gcontents, gleanLog>>
  /\ heap' = Held(heap, ret')
  /\ UNCHANGED borrowed

\* A plausible slip: the Iters of a Font share one cursor.
Iter_next_shared(i) ==
  /\ i \in DOMAIN iters
  /\ heap.on => i \in heap.iters
  /\ LET out == next(iters[i], glyphs, objs) IN
       /\ iters' = [j \in DOMAIN iters |-> out.it]
       /\ glyphs' = out.glyphs
       /\ objs' = out.objs
       /\ loads' = Extended(loads, out.objs)
       /\ ret' = [Returned("next", out.name,
                           IF out.val = None THEN 0 ELSE out.val.v,
                           Ok(out.val))
                   EXCEPT !.it = i, !.retry = iters[i].ended]
  /\ UNCHANGED <<provider, files, fontState, contents, gleanerState,
                 gcontents, gleanLog>>
  /\ heap' = Held(heap, ret')
  /\ borrowed' = Replay(borrowed, next_borrows(iters[i]))

\* Iter::next() on the Iter i
Iter_next(i) ==
  /\ i \in DOMAIN iters
  /\ heap.on => i \in heap.iters
  /\ LET out == next(iters[i], glyphs, objs) IN
       /\ iters' = [iters EXCEPT ![i] = out.it]
       /\ glyphs' = out.glyphs
       /\ objs' = out.objs
       /\ loads' = Extended(loads, out.objs)
       /\ ret' = [Returned("next", out.name,
                           IF out.val = None THEN 0 ELSE out.val.v,
                           Ok(out.val))
                   EXCEPT !.it = i, !.retry = iters[i].ended]
  /\ UNCHANGED <<provider, files, fontState, contents, gleanerState,
                 gcontents, gleanLog>>
  /\ heap' = Held(heap, ret')
  /\ borrowed' = Replay(borrowed, next_borrows(iters[i]))

\* impl IntoIterator for Font, on an owned Font obtained from the shared one
\* with Clone (the derive copies contents and the map of cached handles):
\* Rc::new(self).glyphs().into_keys().collect::<Vec<_>>().into_iter().
\* The names come out in some order ns of the keys of the map glyphs()
\* returns; the copy and what glyphs() adds to it go away with the call.
\* Clone for RefCell borrows the shared Font's map for the copy.
Font_into_iter ==
  /\ fontState = "open"
  /\ heap.on => heap.font
  /\ \E ks \in KeyOrders(DOMAIN contents) :
       LET out == glyphs_all(glyphs, objs, contents, ks) IN
         \E ns \in KeyOrders(DOMAIN out.val) :
           ret' = Returned("into_iter", "", 0, Ok(ns))
  /\ borrowed' = Replay(borrowed, <<borrow(FontGlyphs), drop_ref(FontGlyphs)>>)
  /\ UNCHANGED <<provider, files, fontState, contents, glyphs, objs, loads,
                 gleanerState, gcontents, iters, gleanLog, heap>>

(* ---------------------------------------------------------------------- *)
(* Host-facing Font (bindings/py_font.rs)                                  *)
(* ---------------------------------------------------------------------- *)

\* A host-side value of type t.
PyValue(t, v) == [t |-> t, v |-> v]

\* PyFont::__contains__(name): Ok(self.inner.glyph(name).is_some())
PyFont_contains(name) ==
  /\ fontState = "open"
  /\ LET out == glyph(glyphs, objs, name) IN
       /\ glyphs' = out.glyphs
       /\ objs' = out.objs
       /\ loads' = Extended(loads, out.objs)
       /\ ret' = Returned("contains", name, 0,
                          Ok(PyValue("bool", out.val.t = "Some")))
  /\ UNCHANGED <<provider, files, fontState, contents, gleanerState,
                 gcontents, iters, gleanLog>>
  /\ UNCHANGED heap
  /\ borrowed' = Replay(borrowed, glyph_borrows)

\* PyFont::__len__(): self.inner.glyphs().len()
PyFont_len ==
  /\ fontState = "open"
  /\ \E ks \in KeyOrders(DOMAIN contents) :
       LET out == glyphs_all(glyphs, objs, contents, ks) IN
         /\ glyphs' = out.glyphs
         /\ objs' = out.objs
         /\ loads' = Extended(loads, out.objs)
         /\ ret' = Returned("len", "", 0,
                            Ok(PyValue("int", Cardinality(DOMAIN out.val))))
  /\ UNCHANGED <<provider, files, fontState, contents, gleanerState,
                 gcontents, iters, gleanLog>>
  /\ UNCHANGED heap
  /\ borrowed' = Replay(borrowed, glyphs_all_borrows)

\* PyFont::keys(): self.inner.glyphs().keys().collect()
PyFont_keys ==
  /\ fontState = "open"
  /\ \E ks \in KeyOrders(DOMAIN contents) :
       LET out == glyphs_all(glyphs, objs, contents, ks) IN
         /\ glyphs' = out.glyphs
         /\ objs' = out.objs
         /\ loads' = Extended(loads, out.objs)
         /\ ret' = Returned("keys", "", 0, Ok(PyValue("list", DOMAIN out.val)))
  /\ UNCHANGED <<provider, files, fontState, contents, gleanerState,
                 gcontents, iters, gleanLog>>
  /\ UNCHANGED heap
  /\ borrowed' = Replay(borrowed, glyphs_all_borrows)

\* Glyphs that are not in the Font's cache.
Uncached == {h \in DOMAIN objs : \A n \in DOMAIN glyphs : glyphs[n] # h}

\* PyGlyph::new(font, name): the public constructor Glyph::new, which builds
\* a Glyph of the Font without touching the Font's cache.
PyGlyph_new(name) ==
  /\ fontState = "open"
  /\ Cardinality(Uncached) < MaxNewGlyphs
  /\ objs' = Append(objs, Glyph_new(name))
  /\ loads' = Extended(loads, objs')
  /\ ret' = Returned("Glyph::new", name, Len(objs) + 1, Ok(Some(Len(objs) + 1)))
  /\ UNCHANGED <<provider, files, fontState, contents, glyphs, gleanerState,
                 gcontents, iters, gleanLog>>
  /\ heap' = Held(heap, ret')
  /\ UNCHANGED borrowed

(* ---------------------------------------------------------------------- *)
(* The caller letting go of what it holds (Drop for Rc)                    *)
(* ---------------------------------------------------------------------- *)

\* The caller drops its Rc<Font>.
Drop_Font ==
  /\ heap.on /\ heap.font
  /\ heap' = Reclaim([heap EXCEPT !.font = FALSE], objs, glyphs)
  /\ ret' = Returned("drop Font", "", 0, Ok(None))
  /\ UNCHANGED <<provider, files, fontState, contents, glyphs, objs, loads,
                 gleanerState, gcontents, iters, gleanLog, borrowed>>

\* The caller drops every Rc<Glyph> it holds for the Glyph h.
Drop_Glyph(h) ==
  /\ heap.on /\ h \in heap.glyphs
  /\ heap' = Reclaim([heap EXCEPT !.glyphs = @ \ {h}], objs, glyphs)
  /\ ret' = Returned("drop Glyph", objs[h].name, h, Ok(None))
  /\ UNCHANGED <<provider, files, fontState, contents, glyphs, objs, loads,
                 gleanerState, gcontents, iters, gleanLog, borrowed>>

\* The caller drops the Iter i.
Drop_Iter(i) ==
  /\ heap.on /\ i \in heap.iters
  /\ heap' = Reclaim([heap EXCEPT !.iters = @ \ {i}], objs, glyphs)
  /\ ret' = [Returned("drop Iter", "", 0, Ok(None)) EXCEPT !.it = i]
  /\ UNCHANGED <<provider, files, fontState, contents, glyphs, objs, loads,
                 gleanerState, gcontents, iters, gleanLog, borrowed>>

(* ---------------------------------------------------------------------- *)
(* Batch Reader (core/gleaner.rs)                                          *)
(* ---------------------------------------------------------------------- *)

\* A plausible slip: parse_glif(file_name)? instead of .ok(), so that the
\* first failing entry ends the call with its error.
glean_propagating(kind, fs, g_contents) ==
  LET parsed == [n \in DOMAIN g_contents |-> parse_glif(kind, fs, g_contents[n])]
      bad == {n \in DOMAIN g_contents : ~parsed[n].ok}
  IN IF bad # {} THEN parsed[CHOOSE n \in bad : TRUE]
     ELSE [Ok([n \in DOMAIN g_contents |-> Some(parsed[n].val)]) EXCEPT
             !.reads = UNION {parsed[n].reads : n \in DOMAIN g_contents},
             !.parses = Cardinality(DOMAIN g_contents)]

\* A plausible slip: one failing entry empties every entry of the map.
glean_allOrNothing(kind, fs, g_contents) ==
  LET parsed == [n \in DOMAIN g_contents |-> parse_glif(kind, fs, g_contents[n])]
      allOk == \A n \in DOMAIN g_contents : parsed[n].ok
      glyphs_map == [n \in DOMAIN g_contents |->
                       IF allOk THEN Some(parsed[n].val) ELSE None]
  IN [Ok(glyphs_map) EXCEPT
        !.reads = UNION {parsed[n].reads : n \in DOMAIN g_contents},
        !.parses = Cardinality(DOMAIN g_contents)]

\* UfoGleaner::glean: parse_glif(file_name).ok() for every entry of contents.
glean(kind, fs, g_contents) ==
  LET parsed == [n \in DOMAIN g_contents |-> parse_glif(kind, fs, g_contents[n])]
      glyphs_map == [n \in DOMAIN g_contents |->
                       IF parsed[n].ok THEN Some(parsed[n].val) ELSE None]
  IN [Ok(glyphs_map) EXCEPT
        !.reads = UNION {parsed[n].reads : n \in DOMAIN g_contents},
        !.parses = Cardinality(DOMAIN g_contents)]

\* UfoGleaner::new
UfoGleaner_new ==
  /\ gleanerState = "none"
  /\ LET parsed == parse_contents(provider, files)
         glif_parser == GlifParser_new(provider)
         made == IF ~parsed.ok THEN parsed
                 ELSE IF ~glif_parser.ok THEN After(parsed, glif_parser)
                 ELSE parsed
     IN /\ gleanerState' = IF made.ok THEN "open" ELSE "failed"
        /\ gcontents' = IF made.ok THEN made.val ELSE gcontents
        /\ ret' = Returned("UfoGleaner::new", "", 0, made)
  /\ UNCHANGED <<provider, files, fontState, contents, glyphs, objs, loads>>
  /\ UNCHANGED <<iters, gleanLog>>
  /\ UNCHANGED <<heap, borrowed>>

\* The record of glean() calls after a call that returned res.
Logged(log, res) ==
  IF ~log.on THEN log
  ELSE [on |-> TRUE, calls |-> log.calls + 1,
        parses |-> log.parses + res.parses,
        last |-> res.val, prev |-> log.last]

\* A plausible slip: the map of the first call is kept and handed out again.
UfoGleaner_glean_cached ==
  /\ gleanerState = "open"
  /\ gleanLog.on => gleanLog.calls < MaxGleans
  /\ LET res == IF gleanLog.on /\ gleanLog.calls > 0
                  THEN Ok(gleanLog.last)
                  ELSE glean(provider, files, gcontents)
     IN /\ ret' = Returned("glean", "", 0, res)
        /\ gleanLog' = Logged(gleanLog, res)
  /\ UNCHANGED <<provider, files, fontState, contents, glyphs, objs, loads,
                 gleanerState, gcontents, iters>>
  /\ UNCHANGED <<heap, borrowed>>

\* UfoGleaner::glean()
UfoGleaner_glean ==
  /\ gleanerState = "open"
  /\ gleanLog.on => gleanLog.calls < MaxGleans
  /\ LET res == glean(provider, files, gcontents)
     IN /\ ret' = Returned("glean", "", 0, res)
        /\ gleanLog' = Logged(gleanLog, res)
  /\ UNCHANGED <<provider, files, fontState, contents, glyphs, objs, loads,
                 gleanerState, gcontents, iters>>
  /\ UNCHANGED <<heap, borrowed>>

(* ---------------------------------------------------------------------- *)
(* The provider used directly, and the package changing under the program  *)
(* ---------------------------------------------------------------------- *)

\* Provider::read(rel_path), called on the capability itself.
Provider_read(path) ==
  /\ ret' = Returned("read", path, 0, read(provider, files, path))
  /\ UNCHANGED <<provider, files, fontState, contents, glyphs, objs, loads,
                 gleanerState, gcontents>>
  /\ UNCHANGED <<iters, gleanLog>>
  /\ UNCHANGED <<heap, borrowed>>

\* A glyph file is written, replaced or removed by someone else.
WriteGlif(f, bytes) ==
  /\ files[f] # bytes
  /\ files' = [files EXCEPT ![f] = bytes]
  /\ ret' = Returned("write", "", 0, Ok(None))
  /\ UNCHANGED <<provider, fontState, contents, glyphs, objs, loads,
                 gleanerState, gcontents>>
  /\ UNCHANGED <<iters, gleanLog>>
  /\ UNCHANGED <<heap, borrowed>>

Next ==
  \/ Font_new
  \/ \E name \in Names : Font_glyph(name)
  \/ Font_glyphs
  \/ \E h \in DOMAIN objs : Glyph_access(h)
  \/ UfoGleaner_new
  \/ UfoGleaner_glean
  \/ \E path \in Paths : Provider_read(path)
  \/ \E f \in GlifFiles : \E bytes \in GlifFileStates : WriteGlif(f, bytes)

Spec == Init /\ [][Next]_vars

(* ---------------------------------------------------------------------- *)
(* Errors crossing to the host (bindings/py_error.rs)                      *)
(* ---------------------------------------------------------------------- *)

\* ErrorKind::Other(msg)
Other(msg) == [kind |-> "Other", attr |-> msg, path |-> <<>>]

\* The errors handed to the conversion.
ConvertedErrors ==
  {Error_new(k) : k \in {"Io", "Plist", "Xml", "Parse", "FileNotFound"}}
    \cup {with_path(MissingAttribute(n), <<"", ContentsPath>>) : n \in Names}
    \cup {Other("some context")}

\* impl Display for Error: the kind with its payload, and the path.
Error_to_string(e) == <<e.kind, e.attr, e.path>>

\* impl From<Error> for PyErr: the exception class and its message.
PyErr_from(e) ==
  CASE e.kind = "Io" -> [class |-> "PyOSError", msg |-> Error_to_string(e)]
    [] e.kind = "Plist" -> [class |-> "PyValueError", msg |-> Error_to_string(e)]
    [] e.kind = "Xml" -> [class |-> "PySyntaxError", msg |-> Error_to_string(e)]
    [] e.kind = "Parse" -> [class |-> "PyValueError", msg |-> Error_to_string(e)]
    [] e.kind = "FileNotFound" ->
         [class |-> "PyFileNotFoundError", msg |-> Error_to_string(e)]
    [] e.kind = "MissingAttribute" ->
         [class |-> "PyAttributeError", msg |-> <<e.attr>>]
    [] e.kind = "Other" ->
         [class |-> "PyRuntimeError", msg |-> Error_to_string(e)]

\* let py_err: PyErr = err.into()
Error_into_PyErr(e) ==
  /\ ret' = [Returned("into", e.kind, 0, Ok(PyErr_from(e))) EXCEPT !.err = e]
  /\ UNCHANGED <<provider, files, fontState, contents, glyphs, objs, loads,
                 gleanerState, gcontents, iters, gleanLog>>
  /\ UNCHANGED <<heap, borrowed>>

NextPyErr == \E e \in ConvertedErrors : Error_into_PyErr(e)

SpecPyErr == Init /\ [][NextPyErr]_vars

\* The Batch Reader alone over a package that changes, with a record of
\* its glean() calls.
NextGleaner ==
  \/ UfoGleaner_new
  \/ UfoGleaner_glean
  \/ \E f \in GlifFiles : \E bytes \in GlifFileStates : WriteGlif(f, bytes)

InitGleaner == InitPackage /\ gleanLog = LogEmpty /\ heap = HeapOff

SpecGleaner == InitGleaner /\ [][NextGleaner]_vars

\* The Font with its Iters and its host-facing surface, without the Batch
\* Reader.
NextFont ==
  \/ Font_new
  \/ \E name \in Names : Font_glyph(name)
  \/ Font_glyphs
  \/ Font_iter
  \/ \E i \in DOMAIN iters : Iter_next(i)
  \/ \E h \in DOMAIN objs : Glyph_access(h)
  \/ \E name \in Names : PyFont_contains(name)
  \/ PyFont_len
  \/ PyFont_keys

\* A package in memory whose glyph files are each corrupt or well-formed
\* and stay as they are.
InitFont ==
  /\ Init
  /\ provider = "MockProvider"
  /\ \A f \in GlifFiles : files[f] \in {Garbage, GlifBytes("r1")}

SpecFont == InitFont /\ [][NextFont]_vars

\* The Font with its Iters and Glyphs next to a Batch Reader opened on the
\* same package.
NextIndex ==
  \/ Font_new
  \/ \E name \in Names : Font_glyph(name)
  \/ Font_glyphs
  \/ Font_iter
  \/ \E i \in DOMAIN iters : Iter_next(i)
  \/ \E h \in DOMAIN objs : Glyph_access(h)
  \/ UfoGleaner_new
  \/ UfoGleaner_glean

SpecIndex == InitFont /\ [][NextIndex]_vars

\* The caller working through the references it holds and dropping them: a
\* Font method needs the caller's Rc<Font>, a step needs the Iter.
NextDrop ==
  \/ Font_new
  \/ \E name \in Names : Font_glyph(name)
  \/ Font_glyphs
  \/ Font_iter
  \/ \E i \in DOMAIN iters : Iter_next(i)
  \/ Drop_Font
  \/ \E h \in DOMAIN objs : Drop_Glyph(h)
  \/ \E i \in DOMAIN iters : Drop_Iter(i)

\* A package in memory, and a record kept of references and freed objects.
InitDrop ==
  /\ InitPackage /\ gleanLog = LogOff /\ heap = HeapEmpty
  /\ provider = "MockProvider"
  /\ \A f \in GlifFiles : files[f] = GlifBytes("r1")

SpecDrop == InitDrop /\ [][NextDrop]_vars

\* The Font with its lookups, and its conversion into an iterator of names.
NextInto ==
  \/ Font_new
  \/ \E name \in Names : Font_glyph(name)
  \/ Font_glyphs
  \/ \E h \in DOMAIN objs : Glyph_access(h)
  \/ Font_into_iter

SpecInto == InitFont /\ [][NextInto]_vars

\* Every way to come by a Glyph: lookup, full map, iteration and the public
\* constructor.
NextCtor ==
  \/ Font_new
  \/ \E name \in Names : Font_glyph(name)
  \/ Font_glyphs
  \/ Font_iter
  \/ \E i \in DOMAIN iters : Iter_next(i)
  \/ \E name \in Names : PyGlyph_new(name)

SpecCtor == InitFont /\ [][NextCtor]_vars

(* ---------------------------------------------------------------------- *)
(* Properties                                                              *)
(* ---------------------------------------------------------------------- *)

\* The last operation was a field access.
IsAccess == ret.op = "access"

\* The error kind a read of the absent or undecodable glyph file f ends in.
GlifFailureKind(f) ==
  IF files[f] = Absent
    THEN IF provider = "FileProvider" THEN "FileNotFound" ELSE "Io"
    ELSE "Xml"

\* C1: across any sequence of field accesses on one Glyph the backing file
\* is read and parsed successfully at most once; once the record cell of a
\* Glyph is populated, an access on it reads nothing and parses nothing.
C1_ParsedAtMostOnce ==
  [][/\ \A h \in DOMAIN objs' : loads'[h].okLoads <= 1
     /\ \A h \in DOMAIN objs :
          (objs[h].cache # None /\ ret'.op = "access" /\ ret'.h = h)
            => (ret'.ok /\ ret'.parses = 0 /\ ret'.reads = {})]_vars

\* A field access served from the record cell after the one successful load.
C1_Witness ==
  /\ IsAccess /\ ret.ok /\ ret.parses = 0 /\ ret.reads = {}
  /\ loads[ret.h].okLoads = 1

C3_FailedLoadRetryable ==
  /\ (IsAccess /\ ret.parses > 0) => ret.parses = 1
  /\ (IsAccess /\ ~ret.ok /\ ret.name \in DOMAIN contents) =>
       /\ objs[ret.h].cache = None
       /\ ret.parses = 1
       /\ files[contents[ret.name]].t # "glif"
       /\ ret.err.kind = GlifFailureKind(contents[ret.name])
  /\ (IsAccess /\ ret.retry /\ ret.name \in DOMAIN contents) =>
       /\ ret.parses = 1
       /\ ret.reads = {contents[ret.name]}
       /\ files[contents[ret.name]].t = "glif" =>
            /\ ret.ok
            /\ ret.val = [format |-> files[contents[ret.name]].record]
            /\ objs[ret.h].cache = Some(ret.val)

\* An access that follows a failed load parsed the file again and succeeded.
C3_Witness ==
  /\ IsAccess /\ ret.retry /\ ret.ok /\ ret.parses = 1
  /\ objs[ret.h].cache # None

IndexIsDictionary ==
  /\ files[ContentsPath].t = "plist"
  /\ files[ContentsPath].value.t = "Dictionary"

IndexDictionary == files[ContentsPath].value.dict

\* The names whose index entry is a string.
StringValuedNames ==
  {k \in DOMAIN IndexDictionary : IndexDictionary[k].t = "String"}

\* C5 (as claimed): when glyphs() returns, the returned mapping and the
\* Font's cache hold a handle for every name of the index, whatever lookups
\* were made before the call.
C5_GlyphsWarmsEveryName ==
  ret.op = "glyphs" =>
    /\ DOMAIN contents \subseteq DOMAIN ret.val
    /\ DOMAIN contents \subseteq DOMAIN glyphs

\* C6 (as claimed): glyphs() yields exactly N handles, keyed by exactly the
\* N string-valued names of the index dictionary, in every state of the Font.
C6_GlyphsExactlyIndexNames ==
  ret.op = "glyphs" =>
    /\ DOMAIN ret.val = StringValuedNames
    /\ Cardinality({ret.val[n] : n \in DOMAIN ret.val})
         = Cardinality(StringValuedNames)

\* The record glean() owes the name n: the parsed record of its file, or the
\* absence marker when the file is missing or corrupt.
OwedRecord(n) ==
  LET f == IndexDictionary[n].s IN
    IF files[f].t = "glif" THEN Some([format |-> files[f].record]) ELSE None

\* C7: glean() never fails; its map has exactly the index's names as keys,
\* None for every name whose file cannot be read or parsed and the parsed
\* record for every other name.
C7_GleanSwallowsFailures ==
  ret.op = "glean" =>
    /\ ret.ok
    /\ DOMAIN ret.val = StringValuedNames
    /\ \A n \in DOMAIN ret.val : ret.val[n] = OwedRecord(n)

\* glean() returned the absence marker for one name next to a record for
\* another.
C7_Witness ==
  /\ ret.op = "glean" /\ ret.ok
  /\ \E n, m \in DOMAIN ret.val : ret.val[n] = None /\ ret.val[m] # None

\* The last operation was a construction: Font::new or UfoGleaner::new.
IsOpen == ret.op \in {"Font::new", "UfoGleaner::new"}

\* C8 (as claimed): with the index file missing both constructors fail with
\* the I/O kind, with a top-level value that is no dictionary they fail with
\* the Plist kind, and a failed construction read the index file only.
C8_OpenFailsIoOrPlist ==
  IsOpen =>
    /\ files[ContentsPath] = Absent => (~ret.ok /\ ret.err.kind = "Io")
    /\ (files[ContentsPath].t = "plist" /\ ~IndexIsDictionary) =>
         (~ret.ok /\ ret.err.kind = "Plist")
    /\ ~ret.ok => (ret.reads = {ContentsPath} /\ ret.parses = 0)

\* C8 (amended): with the index file missing both constructors fail with the
\* error of the capability's read (Io for MockProvider, FileNotFound for
\* FileProvider); with a top-level value that is no dictionary they fail
\* with the Plist kind; a failed construction read the index file only.
C8_OpenFailsWithReadError ==
  IsOpen =>
    /\ files[ContentsPath] = Absent =>
         /\ ~ret.ok
         /\ ret.err.kind = IF provider = "FileProvider"
                             THEN "FileNotFound" ELSE "Io"
    /\ (files[ContentsPath].t = "plist" /\ ~IndexIsDictionary) =>
         (~ret.ok /\ ret.err.kind = "Plist")
    /\ ~ret.ok => (ret.reads = {ContentsPath} /\ ret.parses = 0)
    /\ ret.ok => IndexIsDictionary

\* A construction over FileProvider failed on a missing index file, having
\* read nothing but the index path.
C8_Witness ==
  /\ IsOpen /\ ~ret.ok /\ ret.err.kind = "FileNotFound"
  /\ files[ContentsPath] = Absent
  /\ ret.reads = {ContentsPath}

\* C9 (as claimed): with every provider variant, read of an absent path
\* fails with FileNotFound, and every other read failure with Io.
C9_AbsentIsNotFound ==
  ret.op = "read" =>
    /\ files[ret.name] = Absent => (~ret.ok /\ ret.err.kind = "FileNotFound")
    /\ files[ret.name] = Unreadable => (~ret.ok /\ ret.err.kind = "Io")

\* C9 (amended): FileProvider's read of an absent path fails with
\* FileNotFound and any other read failure with Io; MockProvider's read of
\* an absent path fails with Io.
C9_AbsentByVariant ==
  ret.op = "read" =>
    /\ files[ret.name] = Absent =>
         /\ ~ret.ok
         /\ provider = "FileProvider" => ret.err.kind = "FileNotFound"
         /\ provider = "MockProvider" => ret.err.kind = "Io"
    /\ files[ret.name] = Unreadable => (~ret.ok /\ ret.err.kind = "Io")
    /\ files[ret.name] \notin {Absent, Unreadable} =>
         (ret.ok /\ ret.val = files[ret.name])

\* FileProvider's read of an absent path failed with FileNotFound.
C9_Witness ==
  /\ ret.op = "read" /\ provider = "FileProvider"
  /\ files[ret.name] = Absent
  /\ ret.err.kind = "FileNotFound"

\* C10: parse_contents returns exactly the string-valued entries of the
\* index dictionary, each with its filename; entries of another type are
\* dropped and raise no error.
C10_StringEntriesOnly ==
  IsOpen =>
    /\ IndexIsDictionary => ret.ok
    /\ ret.ok =>
         /\ DOMAIN ret.val = StringValuedNames
         /\ \A k \in StringValuedNames : ret.val[k] = IndexDictionary[k].s
         /\ ret.op = "Font::new" => contents = ret.val
         /\ ret.op = "UfoGleaner::new" => gcontents = ret.val

\* The index held a filename and a non-string entry; only the first was kept.
C10_Witness ==
  /\ IsOpen /\ ret.ok
  /\ \E k \in DOMAIN IndexDictionary : IndexDictionary[k].t # "String"
  /\ DOMAIN ret.val # {}

\* The elements of the sequence q.
Range(q) == {q[i] : i \in DOMAIN q}

\* C11: a step of an Iter that yields a handle has the result and the effect
\* on the Font's cache of glyph(name) for the next name of the Iter, and the
\* handle a lookup or a step returns for a name is the one the cache holds,
\* which no step replaces.
C11_StepIsGlyphLookup ==
  [][/\ (ret'.op = "next" /\ ret'.val # None) =>
          LET lookup == glyph(glyphs, objs, ret'.name) IN
            /\ ret'.name = Head(iters[ret'.it].keys)
            /\ ret'.val = lookup.val
            /\ glyphs' = lookup.glyphs
            /\ objs' = lookup.objs
     /\ (ret'.op \in {"next", "glyph"} /\ ret'.val # None) =>
          ret'.val = Some(glyphs'[ret'.name])
     /\ \A n \in DOMAIN glyphs :
          n \in DOMAIN glyphs' /\ glyphs'[n] = glyphs[n]]_vars

\* With two Iters over the Font, a step of one yielded the handle that the
\* other had yielded before and whose record an access had loaded since.
C11_Witness ==
  /\ ret.op = "next" /\ ret.val # None
  /\ Len(iters) = 2
  /\ \E j \in DOMAIN iters : j # ret.it /\ ret.name \in Range(iters[j].yielded)
  /\ objs[ret.h].cache # None

\* C12: an Iter over an index of N names yields each name's handle once, N
\* in all, and then signals the end; after the end every further step
\* signals the end again.
C12_IterYieldsEachOnce ==
  /\ \A i \in DOMAIN iters :
       /\ Range(iters[i].yielded) \cup Range(iters[i].keys) = DOMAIN contents
       /\ Len(iters[i].yielded) + Len(iters[i].keys)
            = Cardinality(DOMAIN contents)
       /\ iters[i].ended => iters[i].keys = <<>>
  /\ ret.op = "next" =>
       /\ ret.val = None <=> (iters[ret.it].ended /\ iters[ret.it].keys = <<>>)
       /\ ret.val = None =>
            Len(iters[ret.it].yielded) = Cardinality(DOMAIN contents)
       /\ ret.val # None =>
            /\ ~iters[ret.it].ended
            /\ ret.val.v \in DOMAIN objs
            /\ objs[ret.val.v].name = ret.name
            /\ ret.name = iters[ret.it].yielded[Len(iters[ret.it].yielded)]
       /\ ret.retry => ret.val = None

\* An Iter that had yielded both names and signalled the end signalled the
\* end once more.
C12_Witness ==
  /\ ret.op = "next" /\ ret.retry /\ ret.val = None
  /\ Range(iters[ret.it].yielded) = Names

\* C13 (as claimed): __contains__(name) is True exactly when name is a key of
\* the index.
C13_ContainsIffIndexed ==
  ret.op = "contains" => (ret.val.v <=> ret.name \in StringValuedNames)

\* C14 (as claimed): in every state of the Font, keys() is the set of index
\* names and __len__() their number, whatever lookups came before.
C14_KeysAndLenFromIndex ==
  /\ ret.op = "keys" => ret.val.v = StringValuedNames
  /\ ret.op = "len" => ret.val.v = Cardinality(StringValuedNames)

\* C15: glean() keeps nothing between calls: every call runs the Record
\* Parser once per index entry, so k calls make k*N runs, and the map of a
\* call follows the glyph files as they are at that call.
C15_GleanReparsesEveryCall ==
  (gleanLog.on /\ gleanerState = "open") =>
    /\ gleanLog.parses = gleanLog.calls * Cardinality(StringValuedNames)
    /\ ret.op = "glean" =>
         /\ ret.parses = Cardinality(StringValuedNames)
         /\ ret.reads = {IndexDictionary[n].s : n \in StringValuedNames}
         /\ gleanLog.last = ret.val
         /\ \A n \in StringValuedNames : ret.val[n] = OwedRecord(n)

\* The second of two glean() calls gave a record for a name the first had
\* marked absent, and marked absent a name the first had a record for.
C15_Witness ==
  /\ gleanLog.on /\ gleanLog.calls = 2 /\ ret.op = "glean"
  /\ gleanLog.parses = 4
  /\ \E n \in DOMAIN ret.val : gleanLog.prev[n] = None /\ ret.val[n] # None
  /\ \E n \in DOMAIN ret.val : gleanLog.prev[n] # None /\ ret.val[n] = None

\* C16 (as claimed): at most one Glyph exists per name, whichever way the
\* Glyphs were built, the public constructor included.
C16_OneHandlePerName ==
  \A h1, h2 \in DOMAIN objs : objs[h1].name = objs[h2].name => h1 = h2

\* C16 (amended): the Font hands out at most one Glyph per name: the cache
\* maps a name to a Glyph of that name, and a Glyph built by glyph(),
\* glyphs() or an Iter step is built for a name the cache did not hold and
\* is cached under it; the public constructor builds a Glyph outside the
\* cache and leaves the cache as it is.
C16_OneCachedHandlePerName ==
  [][/\ \A n \in DOMAIN glyphs' : objs'[glyphs'[n]].name = n
     /\ \A h \in DOMAIN objs' \ DOMAIN objs :
          ret'.op # "Glyph::new" =>
            /\ objs'[h].name \notin DOMAIN glyphs
            /\ objs'[h].name \in DOMAIN glyphs'
            /\ glyphs'[objs'[h].name] = h
     /\ ret'.op = "Glyph::new" =>
          /\ glyphs' = glyphs
          /\ \A n \in DOMAIN glyphs' : glyphs'[n] # ret'.h]_vars

\* The public constructor built a second Glyph for a name whose cached
\* Glyph an Iter had yielded.
C16_Witness ==
  /\ ret.op = "Glyph::new"
  /\ ret.name \in DOMAIN glyphs /\ glyphs[ret.name] # ret.h
  /\ objs[ret.h].name = objs[glyphs[ret.name]].name
  /\ \E i \in DOMAIN iters : ret.name \in Range(iters[i].yielded)

\* The exception class the conversion owes an error of the kind k.
OwedClass(k) ==
  CASE k \in {"Io", "Other"} -> "PyOSError"
    [] k \in {"Plist", "Parse"} -> "PyValueError"
    [] k = "Xml" -> "PySyntaxError"
    [] k = "FileNotFound" -> "PyFileNotFoundError"
    [] k = "MissingAttribute" -> "PyAttributeError"

\* C17 (as claimed): the conversion gives an error of kind Other a PyOSError
\* whose message holds the original context, and every other kind its one
\* fixed class.
C17_ErrorKindToException ==
  ret.op = "into" =>
    /\ ret.val.class = OwedClass(ret.err.kind)
    /\ ret.err.kind = "Other" =>
         \E i \in DOMAIN ret.val.msg : ret.val.msg[i] = ret.err.attr

\* C18: glyph(), glyphs(), iter() and a step of an Iter read nothing through
\* the provider and run no parser; they leave the record cell of every
\* Glyph as it was and build Glyphs with an empty cell.  A glyph file is
\* read by a field accessor only.
C18_CreationNeverParses ==
  [][/\ ret'.op \in {"glyph", "glyphs", "iter", "next"} =>
          /\ ret'.reads = {} /\ ret'.parses = 0
          /\ \A h \in DOMAIN objs : objs'[h] = objs[h] /\ loads'[h] = loads[h]
          /\ \A h \in DOMAIN objs' \ DOMAIN objs :
               objs'[h].cache = None /\ loads'[h].okLoads = 0
     /\ (\/ ret'.reads \cap GlifFiles # {}
         \/ \E h \in DOMAIN objs \cap DOMAIN objs' :
              objs'[h].cache # objs[h].cache)
          => ret'.op = "access"]_vars

\* A step of an Iter built a Glyph with an empty cell while the cell of
\* another Glyph held its record.
C18_Witness ==
  /\ ret.op = "next" /\ ret.val # None
  /\ ret.h = Len(objs) /\ objs[ret.h].cache = None
  /\ \E h \in DOMAIN objs : objs[h].cache # None

\* C19: a populated record cell is never cleared or overwritten, and every
\* later access on the Glyph returns the record in it, also after the glyph
\* file was changed, removed or made unparseable.
C19_PopulatedCellIsFinal ==
  [][\A h \in DOMAIN objs :
       objs[h].cache # None =>
         /\ h \in DOMAIN objs' /\ objs'[h].cache = objs[h].cache
         /\ (ret'.op = "access" /\ ret'.h = h) =>
              (ret'.ok /\ ret'.val = objs[h].cache.v)]_vars

\* An access returned the stored record of a Glyph whose file by then held
\* something else.
C19_Witness ==
  /\ IsAccess /\ ret.ok /\ ret.parses = 0
  /\ ret.name \in DOMAIN contents
  /\ objs[ret.h].cache = Some(ret.val)
  /\ files[contents[ret.name]] # GlifBytes(ret.val.format)

\* C20: a load on an empty cell looks the name up in the index before
\* anything else: for a name the index does not have it fails with
\* MissingAttribute carrying the name and the path of the index file under
\* the provider's root, runs no parser, reads no file and leaves the cell
\* empty.
C20_LookupBeforeParse ==
  (IsAccess /\ ret.name \notin DOMAIN contents) =>
    /\ ret.err = [kind |-> "MissingAttribute", attr |-> ret.name,
                  path |-> <<root(provider), ContentsPath>>]
    /\ ret.parses = 0 /\ ret.reads = {}
    /\ objs[ret.h].cache = None
    /\ loads[ret.h].okLoads = 0

\* A first access on a handle for a name outside the index failed with the
\* name and the index path under FileProvider's root.
C20_Witness ==
  /\ IsAccess /\ ~ret.retry /\ ~ret.ok
  /\ ret.name \notin DOMAIN contents
  /\ ret.err.attr = ret.name
  /\ ret.err.path = <<"/ufo", ContentsPath>>
  /\ objs[ret.h].cache = None

\* C21: the index of an open Font and of an open Batch Reader never changes:
\* no operation adds, removes or remaps a name, also when glyph(name) is
\* called with a name the index does not have.
C21_IndexFixed ==
  [][/\ fontState = "open" => (fontState' = "open" /\ contents' = contents)
     /\ gleanerState = "open" =>
          (gleanerState' = "open" /\ gcontents' = gcontents)]_vars

\* glyph(name) has cached a handle for a name outside the index, a record
\* has been loaded and the Batch Reader has read the package, and the index
\* of both is what the index file holds.
C21_Witness ==
  /\ fontState = "open" /\ gleanerState = "open"
  /\ ret.op = "glean"
  /\ \E n \in DOMAIN glyphs : n \notin DOMAIN contents
  /\ \E h \in DOMAIN objs : objs[h].cache # None
  /\ \E i \in DOMAIN iters : iters[i].yielded # <<>>
  /\ contents = StringEntries(IndexDictionary)
  /\ gcontents = contents

\* C22: once the caller has dropped its reference to the Font, to every
\* Glyph and to every Iter, the Font and all its Glyphs are freed.
C22_AllDroppedAllFreed ==
  (/\ heap.on /\ fontState = "open"
   /\ ~heap.font /\ heap.glyphs = {} /\ heap.iters = {})
    => (heap.fontFreed /\ heap.glyphsFreed = DOMAIN objs)

\* C23: every Iter is a cursor of its own: a step of one Iter, and every
\* other operation, leaves every other Iter as it was; a new Iter starts
\* with all the names of the index, whatever is cached and wherever the
\* older Iters stand; and the names an Iter has yielded and has left are
\* together the names of the index.
C23_ItersIndependent ==
  [][/\ \A j \in DOMAIN iters :
          /\ j \in DOMAIN iters'
          /\ (ret'.op = "next" /\ ret'.it = j) \/ iters'[j] = iters[j]
     /\ \A j \in DOMAIN iters' \ DOMAIN iters :
          /\ iters'[j].yielded = <<>>
          /\ Range(iters'[j].keys) = DOMAIN contents
     /\ \A j \in DOMAIN iters' :
          /\ Range(iters'[j].yielded) \cup Range(iters'[j].keys)
               = DOMAIN contents'
          /\ Len(iters'[j].yielded) + Len(iters'[j].keys)
               = Cardinality(DOMAIN contents')]_vars

\* The second Iter has yielded every name of a non-empty index after the
\* first Iter had run to its end.
C23_Witness ==
  /\ Len(iters) = 2
  /\ ret.op = "next" /\ ret.it = 2 /\ ret.val # None
  /\ DOMAIN contents # {}
  /\ iters[1].ended
  /\ Range(iters[1].yielded) = DOMAIN contents
  /\ Range(iters[2].yielded) = DOMAIN contents

\* C24: converting a Font into an iterator yields the names of the index,
\* each once, whatever the Font's cache holds at the time.
C24_IntoIterYieldsIndexNames ==
  ret.op = "into_iter" =>
    /\ Range(ret.val) = DOMAIN contents
    /\ Len(ret.val) = Cardinality(DOMAIN contents)

\* C25: the lazy and the eager reader agree on one package: a field access
\* that runs the parser for an index name n succeeds exactly when glean()
\* has Some record for n, the record it returns and caches is that record,
\* and it fails and caches nothing exactly when glean() has None for n.
C25_LazyAgreesWithEager ==
  (IsAccess /\ gleanerState = "open" /\ ret.name \in DOMAIN contents
     /\ ret.parses > 0) =>
    LET eager == glean(provider, files, gcontents).val IN
      /\ ret.name \in DOMAIN eager
      /\ ret.ok <=> eager[ret.name] # None
      /\ ret.ok => (eager[ret.name] = Some(ret.val)
                      /\ objs[ret.h].cache = eager[ret.name])
      /\ ~ret.ok => objs[ret.h].cache = None

\* A first load succeeded for one name of a package in which glean() has
\* that record and has None for the other name.
C25_Witness ==
  /\ IsAccess /\ gleanerState = "open" /\ ret.ok /\ ret.parses > 0
  /\ LET eager == glean(provider, files, gcontents).val IN
       /\ eager[ret.name] = Some(ret.val)
       /\ \E n \in DOMAIN eager : eager[n] = None

\* C26: a field access on one Glyph, successful or failed, leaves the
\* Font's cache of handles and every other Glyph as they were: their record
\* cells and the outcome of their earlier loads.
C26_AccessTouchesOneGlyph ==
  [][ret'.op = "access" =>
       /\ glyphs' = glyphs
       /\ DOMAIN objs' = DOMAIN objs
       /\ \A k \in DOMAIN objs \ {ret'.h} :
            objs'[k] = objs[k] /\ loads'[k] = loads[k]]_vars

\* A load of one name failed while the Glyph of another name held its
\* record, and holds it still.
C26_Witness ==
  /\ IsAccess /\ ~ret.ok /\ ret.parses > 0
  /\ \E k \in DOMAIN objs :
       /\ objs[k].name # ret.name
       /\ objs[k].cache # None
       /\ loads[k].okLoads = 1

\* C27: no operation on a Font, its Iters and its Glyphs borrows a RefCell
\* that is borrowed in a conflicting way: no borrow panics, and between
\* operations no RefCell is left borrowed.
C27_NoConflictingBorrow ==
  /\ ~borrowed.panicked
  /\ \A c \in DOMAIN borrowed.flag : borrowed.flag[c] = 0

\* A first load has read and then written the cell of a Glyph that a step
\* of an Iter handed out, after the Font's map was borrowed by glyph(),
\* glyphs() or the step.
C27_Witness ==
  /\ IsAccess /\ ret.ok /\ ret.parses > 0
  /\ objs[ret.h].cache = Some(ret.val)
  /\ \E i \in DOMAIN iters : ret.name \in Range(iters[i].yielded)
  /\ borrowed = NoBorrows

====
